---- MODULE Spec2Model ----
(***************************************************************************)
(* podenv command line entrypoint (podenv/main.py): the override           *)
(* resolution applyCommandLineOverride and the lifecycle run().            *)
(*                                                                         *)
(* Two specifications:                                                     *)
(*   Spec          one invocation of run(), from the parsed arguments to   *)
(*                 the way the process ends;                               *)
(*   SpecOverride  applyCommandLineOverride alone, on every combination of *)
(*                 override flags of the bounded argument space.           *)
(***************************************************************************)
EXTENDS Integers, Sequences, FiniteSets, TLC

(* ---------------------------- bounds ----------------------------------- *)
\* environments a loaded configuration holds at most
MaxEnvs == 2
\* -e/--environ entries on one command line
MaxEnviron == 1
\* characters of one -e/--environ entry
MaxEntryLen == 2
\* override flags given together in one run() (SpecOverride gives them all)
MaxRunOverrides == 1

(* ---------------------------- values ----------------------------------- *)
None == "None"

\* podenv.capabilities.Capabilities: the ordered table of capability names
Capabilities == <<"terminal", "mount-cwd">>

CapNames == {Capabilities[i] : i \in 1..Len(Capabilities)}

\* name.replace('-', '_') on the names of the table
ArgName(name) ==
    CASE name = "mount-cwd" -> "mount_cwd"
      [] OTHER -> name

ArgNames == {ArgName(n) : n \in CapNames}

\* the characters a -e/--environ entry is made of
EntryChars == {"K", "="}

RECURSIVE SeqsUpTo(_, _)
SeqsUpTo(S, n) ==
    IF n = 0 THEN {<<>>}
    ELSE LET shorter == SeqsUpTo(S, n - 1)
         IN shorter \cup {Append(s, c) : s \in {t \in shorter : Len(t) = n - 1}, c \in S}

EnvironEntries == SeqsUpTo(EntryChars, MaxEntryLen) \ {<<>>}

\* what -e/--environ leaves in args.environ: the appended entries; the None
\* of an absent flag is the empty list, both are false in "if args.environ"
EnvironArgs == SeqsUpTo(EnvironEntries, MaxEnviron)

\* the -e/--environ arguments of the runs of run(): none, one entry that
\* holds a "=", one that holds none
RunEnvironArgs == {<<>>, <<<<"K", "=", "K">>>>, <<<<"K">>>>}

\* the paths --home is given, and the host file system they are resolved on
HomePaths == {"~/proj", "work", "/does/not/exist"}

\* Path.expanduser(): a leading ~ becomes the user's home directory
Expanduser(p) ==
    CASE p = "~/proj" -> "/home/user/proj"
      [] OTHER -> p

\* Path.resolve(): a relative path is made absolute from the working directory
Absolute(p) ==
    CASE p = "work" -> "/home/user/work"
      [] OTHER -> p

ExistingPaths == {"/home/user/proj", "/home/user/work"}

(* ------------------------- the environments ---------------------------- *)
EnvNames == {"dev", "web"}

NoEnviron == [isNone |-> TRUE, map |-> <<>>]

\* the Env objects the configuration loader builds
EnvCatalogue ==
    [n \in EnvNames |->
        IF n = "dev"
        THEN [envName |-> "dev", description |-> "development shell",
              image |-> "localhost/dev", command |-> <<"/bin/sh">>,
              capabilities |-> <<>>, environ |-> NoEnviron,
              network |-> None, home |-> None,
              original |-> "schema", containerFile |-> "recipe"]
        ELSE [envName |-> "web", description |-> "browser",
              image |-> "registry/web", command |-> <<"firefox", "--new">>,
              capabilities |-> [c \in {"terminal"} |-> FALSE],
              environ |-> [isNone |-> FALSE, map |-> [k \in {<<"K">>} |-> <<"old">>]],
              network |-> "host", home |-> "/srv/web",
              original |-> "schema", containerFile |-> None]]

NoEnv ==
    [envName |-> None, description |-> None, image |-> None, command |-> <<>>,
     capabilities |-> <<>>, environ |-> NoEnviron, network |-> None,
     home |-> None, original |-> None, containerFile |-> None]


(* --------------------- applyCommandLineOverride ------------------------ *)
\* env.capabilities[name] = value
SetCap(caps, name, value) ==
    [n \in (DOMAIN caps) \cup {name} |-> IF n = name THEN value ELSE caps[n]]

\* the loop over the table with the disable flags left out
RECURSIVE OverrideCapabilitiesEnableOnly(_, _, _)
OverrideCapabilitiesEnableOnly(a, caps, i) ==
    IF i > Len(Capabilities) THEN caps
    ELSE LET name == Capabilities[i]
             enabled == IF ArgName(name) \in a.enable
                        THEN SetCap(caps, name, TRUE) ELSE caps
         IN OverrideCapabilitiesEnableOnly(a, enabled, i + 1)

\* the loop over the table: the enable flag is applied, then the disable flag
RECURSIVE OverrideCapabilities(_, _, _)
OverrideCapabilities(a, caps, i) ==
    IF i > Len(Capabilities) THEN caps
    ELSE LET name == Capabilities[i]
             argName == ArgName(name)
             enabled == IF argName \in a.enable
                        THEN SetCap(caps, name, TRUE) ELSE caps
             disabled == IF argName \in a.disable
                         THEN SetCap(enabled, name, FALSE) ELSE enabled
         IN OverrideCapabilities(a, disabled, i + 1)

\* str.split("=", 1): cut at the first "=", one piece when there is none
SplitOnce(s) ==
    IF \E i \in 1..Len(s) : s[i] = "="
    THEN LET i == CHOOSE k \in 1..Len(s) :
                     s[k] = "=" /\ \A j \in 1..(k - 1) : s[j] # "="
         IN <<SubSeq(s, 1, i - 1), SubSeq(s, i + 1, Len(s))>>
    ELSE <<s>>

\* the loop over args.environ; "key, val = ..." raises ValueError on one piece
RECURSIVE OverrideEnviron(_, _, _)
OverrideEnviron(entries, i, environ) ==
    IF i > Len(entries) THEN [environ |-> environ, exc |-> None]
    ELSE LET parts == SplitOnce(entries[i])
         IN IF Len(parts) # 2
            THEN [environ |-> environ, exc |-> "ValueError"]
            ELSE LET cur == IF environ.isNone \/ DOMAIN environ.map = {}
                            THEN <<>> ELSE environ.map
                     new == [k \in (DOMAIN cur) \cup {parts[1]} |->
                                IF k = parts[1] THEN parts[2] ELSE cur[k]]
                 IN OverrideEnviron(entries, i + 1,
                                    [isNone |-> FALSE, map |-> new])

\* the --shell override giving way to --no-terminal
OverrideShellUnlessDisabled(a, e) ==
    IF a.shell
    THEN [e EXCEPT !.capabilities = IF "terminal" \in a.disable THEN @
                                    ELSE SetCap(@, "terminal", TRUE),
                   !.command = <<"/bin/bash">>]
    ELSE e

\* lines 98-100: the --shell override
OverrideShell(a, e) ==
    IF a.shell
    THEN [e EXCEPT !.capabilities = SetCap(@, "terminal", TRUE),
                   !.command = <<"/bin/bash">>]
    ELSE e

\* the whole function: the env as it leaves it, and the exception it raised
ApplyCommandLineOverride(a, e) ==
    LET e1 == [e EXCEPT !.capabilities = OverrideCapabilities(a, @, 1)]
        r == IF a.environ # <<>>
             THEN OverrideEnviron(a.environ, 1, e1.environ)
             ELSE [environ |-> e1.environ, exc |-> None]
        e2 == [e1 EXCEPT !.environ = r.environ]
        e3 == OverrideShell(a, e2)
        e4 == IF a.image # None THEN [e3 EXCEPT !.image = a.image] ELSE e3
        e5 == IF a.net # None THEN [e4 EXCEPT !.network = a.net] ELSE e4
        path == Absolute(Expanduser(a.home))
    IN  IF r.exc # None THEN [env |-> e2, exc |-> r.exc]
        ELSE IF a.home = None THEN [env |-> e5, exc |-> None]
        ELSE IF path \notin ExistingPaths
             THEN [env |-> e5, exc |-> "FileNotFoundError"]
        ELSE [env |-> [e5 EXCEPT !.home = path], exc |-> None]

(* ------------------------------ state ---------------------------------- *)
VARIABLES
    pc,              \* the statement of run() control has reached
    args,            \* the argparse namespace
    notifyUserProc,  \* the callable getUserNotificationProc chose
    conf,            \* the loaded configuration: environment name -> Env
    env,             \* the selected Env object
    ctx,             \* the ExecContext prepareEnv built
    calls,           \* the operations called so far, each with how it ended
    podResult,       \* the local podResult, -1 while unbound
    outcome,         \* how the process ended
    out              \* what was shown to the user, in order

vars == <<pc, args, notifyUserProc, conf, env, ctx, calls, podResult, outcome, out>>

\* how a called operation ends
Outcomes == {"ok", "RuntimeError", "KeyboardInterrupt"}

Running == [kind |-> "running", code |-> -1, exc |-> None, src |-> None]
Returned == [kind |-> "returned", code |-> -1, exc |-> None, src |-> None]
Exited(code) == [kind |-> "exit", code |-> code, exc |-> None, src |-> None]
Raised(exc, src) == [kind |-> "raised", code |-> -1, exc |-> exc, src |-> src]

NoCtx ==
    [name |-> None, imageName |-> None, runtimeArgs |-> <<>>,
     commandArgs |-> <<>>, containerFile |-> None, containerUpdate |-> None]

(* ---------------------------- arguments -------------------------------- *)
\* the override flags of the parser
OverrideArgs ==
    [enable : SUBSET ArgNames, disable : SUBSET ArgNames,
     environ : EnvironArgs, shell : BOOLEAN,
     image : {None, "registry/other"}, net : {None, "host"},
     home : {None} \cup HomePaths]

\* the other flags and the positional env
ModeArgs ==
    [debug : BOOLEAN, verbose : BOOLEAN, list : BOOLEAN, show : BOOLEAN,
     update : BOOLEAN, rebuild : BOOLEAN,
     env : {None} \cup EnvNames, args : {<<>>}]

NoModeArgs ==
    [debug |-> FALSE, verbose |-> FALSE, list |-> FALSE, show |-> FALSE,
     update |-> FALSE, rebuild |-> FALSE, env |-> None, args |-> <<>>]

\* the override flags of the runs of run()
RunOverrideArgs ==
    [enable : SUBSET ArgNames, disable : SUBSET ArgNames,
     environ : RunEnvironArgs, shell : BOOLEAN,
     image : {None, "registry/other"}, net : {None, "host"},
     home : {None} \cup HomePaths]

\* the number of override flags given
OverrideCount(o) ==
    Cardinality(o.enable) + Cardinality(o.disable) + Len(o.environ)
    + (IF o.shell THEN 1 ELSE 0) + (IF o.image # None THEN 1 ELSE 0)
    + (IF o.net # None THEN 1 ELSE 0) + (IF o.home # None THEN 1 ELSE 0)

(* ------------------------------ helpers -------------------------------- *)
Call(op, res) == calls' = Append(calls, [op |-> op, res |-> res])

Called(op) == \E i \in 1..Len(calls) : calls[i].op = op

CalledWith(op, res) ==
    \E i \in 1..Len(calls) : calls[i].op = op /\ calls[i].res = res

\* an exception no handler of run() catches
Propagate(exc, src) ==
    /\ pc' = "done"
    /\ outcome' = Raised(exc, src)
    /\ UNCHANGED out

\* fail(userNotif, msg): desktop notification or red print, then exit(1)
fail(src) ==
    /\ out' = Append(out, [via |-> IF notifyUserProc = "desktopNotification"
                                   THEN "desktopNotification" ELSE "print",
                           what |-> "failure", src |-> src])
    /\ pc' = "done"
    /\ outcome' = Exited(1)

\* the handler without its "if args.debug: raise"
HandleRuntimeErrorNeverRaises(src) == fail(src)

\* "except RuntimeError as e: if args.debug: raise; fail(...)"
HandleRuntimeError(src) ==
    IF args.debug THEN Propagate("RuntimeError", src) ELSE fail(src)

\* how an operation called outside the try of EXECUTE ends when it fails
Abort(res, src) ==
    IF res = "RuntimeError" THEN HandleRuntimeError(src)
    ELSE Propagate(res, src)

(* ------------------------------- run() --------------------------------- *)
\* getUserNotificationProc(verbose), on a host with or without a tty and a
\* session bus
GetUserNotificationProc(verbose, tty, bus) ==
    IF ~tty /\ bus THEN "desktopNotification"
    ELSE IF tty /\ verbose THEN "log.info"
    ELSE "stderr"

\* lines 168-174: --debug implies --verbose, the notification sink is chosen
Start ==
    /\ pc = "start"
    /\ args' = [args EXCEPT !.verbose = args.debug \/ args.verbose]
    /\ \E tty \in BOOLEAN, bus \in BOOLEAN :
          notifyUserProc' = GetUserNotificationProc(args'.verbose, tty, bus)
    /\ pc' = "loadConfig"
    /\ UNCHANGED <<conf, env, ctx, calls, podResult, outcome, out>>

\* the configurations the loader returns
Configurations ==
    {[n \in S |-> EnvCatalogue[n]] :
        S \in {T \in SUBSET EnvNames : Cardinality(T) <= MaxEnvs}}

\* line 178: conf = loadConfig(...)
LoadConfig ==
    /\ pc = "loadConfig"
    /\ \E res \in Outcomes :
          /\ Call("loadConfig", res)
          /\ IF res = "ok"
             THEN /\ conf' \in Configurations
                  /\ pc' = "selectEnv"
                  /\ UNCHANGED <<outcome, out>>
             ELSE /\ Abort(res, "loadConfig")
                  /\ UNCHANGED conf
    /\ UNCHANGED <<args, notifyUserProc, env, ctx, podResult>>

\* the characters of an environment name, as code points
NameCodes(n) ==
    CASE n = "dev" -> <<100, 101, 118>>
      [] n = "web" -> <<119, 101, 98>>

\* the order of str: the first differing character decides, a prefix is less
RECURSIVE CodesLess(_, _)
CodesLess(a, b) ==
    IF b = <<>> THEN FALSE
    ELSE IF a = <<>> THEN TRUE
    ELSE IF a[1] # b[1] THEN a[1] < b[1]
    ELSE CodesLess(Tail(a), Tail(b))

NameLess(m, n) == CodesLess(NameCodes(m), NameCodes(n))

\* the keys in the order they were inserted, sorted() left out
RECURSIVE UnsortedKeys(_)
UnsortedKeys(S) ==
    IF S = {} THEN <<>>
    ELSE LET last == CHOOSE x \in S : \A y \in S \ {x} : NameLess(x, y)
         IN UnsortedKeys(S \ {last}) \o <<last>>

\* sorted(envs.items()): the keys are distinct, so they decide the order
RECURSIVE SortedKeys(_)
SortedKeys(S) ==
    IF S = {} THEN <<>>
    ELSE LET least == CHOOSE x \in S : \A y \in S \ {x} : NameLess(x, y)
         IN <<least>> \o SortedKeys(S \ {least})

\* listEnv(envs): the header, then one row per environment, sorted by name
ListEnvRows ==
    LET names == SortedKeys(DOMAIN conf)
    IN <<[via |-> "print", what |-> "row", src |-> <<"NAME", "DESCRIPTION">>]>>
       \o [i \in 1..Len(names) |->
             [via |-> "print", what |-> "row",
              src |-> <<conf[names[i]].envName, conf[names[i]].description>>]]

\* line 186 asking for an empty configuration only
NoSingleEnvOnlyIfEmpty(c) == Cardinality(DOMAIN c) = 0

\* line 186: len(conf) != 1
NoSingleEnv(c) == Cardinality(DOMAIN c) # 1

\* lines 182-189: --list, and the choice of the environment when none is named
SelectEnv ==
    /\ pc = "selectEnv"
    /\ IF args.list /\ ~args.show
       THEN IF DOMAIN conf = {}
            THEN \* max() of an empty sequence
                 /\ Propagate("ValueError", "listEnv")
                 /\ UNCHANGED args
            ELSE /\ out' = out \o ListEnvRows
                 /\ pc' = "done"
                 /\ outcome' = Returned
                 /\ UNCHANGED args
       ELSE IF args.env = None
            THEN IF NoSingleEnv(conf)
                 THEN /\ out' = Append(out, [via |-> "print", what |-> "usage",
                                             src |-> "usageParser"])
                      /\ pc' = "done"
                      /\ outcome' = Exited(1)
                      /\ UNCHANGED args
                 ELSE /\ args' = [args EXCEPT
                                    !.env = CHOOSE n \in DOMAIN conf : TRUE]
                      /\ pc' = "getEnv"
                      /\ UNCHANGED <<outcome, out>>
            ELSE /\ pc' = "getEnv"
                 /\ UNCHANGED <<args, outcome, out>>
    /\ UNCHANGED <<notifyUserProc, conf, env, ctx, calls, podResult>>

\* line 191: env = getEnv(conf, args.env)
GetEnv ==
    /\ pc = "getEnv"
    /\ IF args.env \in DOMAIN conf
       THEN /\ Call("getEnv", "ok")
            /\ env' = conf[args.env]
            /\ pc' = "override"
            /\ UNCHANGED <<outcome, out>>
       ELSE /\ Call("getEnv", "RuntimeError")
            /\ HandleRuntimeError("getEnv")
            /\ UNCHANGED env
    /\ UNCHANGED <<args, notifyUserProc, conf, ctx, podResult>>

\* line 192: applyCommandLineOverride(args, env), inside the try of run()
Override ==
    /\ pc = "override"
    /\ LET r == ApplyCommandLineOverride(args, env)
       IN /\ env' = r.env
          /\ IF r.exc = None
             THEN /\ Call("applyCommandLineOverride", "ok")
                  /\ pc' = "prepareEnv"
                  /\ UNCHANGED <<outcome, out>>
             ELSE /\ Call("applyCommandLineOverride", r.exc)
                  /\ Abort(r.exc, "applyCommandLineOverride")
    /\ UNCHANGED <<args, notifyUserProc, conf, ctx, podResult>>

\* the ExecContext compiled from the env and the extra arguments
CompileContext(e, extra) ==
    [name |-> e.envName, imageName |-> e.image,
     runtimeArgs |-> <<"--rm">> \o
        (IF "terminal" \in DOMAIN e.capabilities /\ e.capabilities["terminal"]
         THEN <<"-it">> ELSE <<>>),
     commandArgs |-> e.command \o extra,
     containerFile |-> e.containerFile, containerUpdate |-> e.containerFile]

\* lines 193-200 with --update looked at before --show
PrepareEnvUpdateFirst ==
    /\ pc = "prepareEnv"
    /\ \E res \in Outcomes :
          /\ Call("prepareEnv", res)
          /\ IF res = "ok"
             THEN /\ ctx' = CompileContext(env, args.args)
                  /\ pc' = IF args.show /\ ~args.update
                           THEN "showEnv" ELSE "updateImage"
                  /\ UNCHANGED <<outcome, out>>
             ELSE /\ Abort(res, "prepareEnv")
                  /\ UNCHANGED ctx
    /\ UNCHANGED <<args, notifyUserProc, conf, env, podResult>>

\* line 193: ctx = prepareEnv(env, args.args); lines 199-200 choose what follows
PrepareEnv ==
    /\ pc = "prepareEnv"
    /\ \E res \in Outcomes :
          /\ Call("prepareEnv", res)
          /\ IF res = "ok"
             THEN /\ ctx' = CompileContext(env, args.args)
                  /\ pc' = IF args.show THEN "showEnv" ELSE "updateImage"
                  /\ UNCHANGED <<outcome, out>>
             ELSE /\ Abort(res, "prepareEnv")
                  /\ UNCHANGED ctx
    /\ UNCHANGED <<args, notifyUserProc, conf, env, podResult>>

\* image.startswith('localhost/') on the image names of the model
StartsWithLocalhost(image) == image \in {"localhost/dev"}

\* showEnv(verbose, debug, env, ctx), and the return of line 200
ShowEnv ==
    /\ pc = "showEnv"
    /\ LET localImage == StartsWithLocalhost(env.image)
           schema == IF args.debug
                     THEN <<[via |-> "print", what |-> "schema",
                             src |-> env.original]>>
                     ELSE <<>>
           e1 == IF args.debug THEN [env EXCEPT !.original = None] ELSE env
           e2 == IF args.verbose THEN [e1 EXCEPT !.containerFile = None] ELSE e1
           repr == IF args.verbose
                   THEN <<[via |-> "print", what |-> "env", src |-> e2.envName]>>
                   ELSE <<>>
           recipe == IF localImage /\ ctx.containerFile # None
                     THEN <<[via |-> "print", what |-> "containerFile",
                             src |-> ctx.containerFile]>>
                     ELSE <<>>
           update == IF args.verbose /\ localImage /\ ctx.containerUpdate # None
                     THEN <<[via |-> "print", what |-> "containerUpdate",
                             src |-> ctx.containerUpdate]>>
                     ELSE <<>>
       IN /\ env' = e2
          /\ out' = out \o schema \o repr \o recipe \o update \o
                    <<[via |-> "print", what |-> "command line",
                       src |-> <<"podman", "run">> \o ctx.runtimeArgs \o
                               <<ctx.imageName>> \o ctx.commandArgs]>>
    /\ pc' = "done"
    /\ outcome' = Returned
    /\ UNCHANGED <<args, notifyUserProc, conf, ctx, calls, podResult>>

\* line 205: under --update, --rebuild is the invalid action
InvalidActionIgnored(a) == FALSE

InvalidAction(a) == a.rebuild

\* lines 202-211 with a failed update reported and the run going on
UpdateImageGoesOn ==
    /\ pc = "updateImage"
    /\ IF args.update
       THEN IF InvalidAction(args)
            THEN /\ HandleRuntimeError("Invalid action --update --rebuild")
                 /\ UNCHANGED calls
            ELSE \E res \in Outcomes :
                    /\ Call("updateImage", res)
                    /\ IF res = "KeyboardInterrupt"
                       THEN Propagate(res, "updateImage")
                       ELSE /\ pc' = "setupImage"
                            /\ UNCHANGED <<outcome, out>>
       ELSE /\ pc' = "setupImage"
            /\ UNCHANGED <<calls, outcome, out>>
    /\ UNCHANGED <<args, notifyUserProc, conf, env, ctx, podResult>>

\* lines 202-211: the --update --rebuild conflict, then updateImage
UpdateImage ==
    /\ pc = "updateImage"
    /\ IF args.update
       THEN IF InvalidAction(args)
            THEN /\ HandleRuntimeError("Invalid action --update --rebuild")
                 /\ UNCHANGED calls
            ELSE \E res \in Outcomes :
                    /\ Call("updateImage", res)
                    /\ IF res = "ok"
                       THEN /\ pc' = "setupImage"
                            /\ UNCHANGED <<outcome, out>>
                       ELSE Abort(res, "updateImage")
       ELSE /\ pc' = "setupImage"
            /\ UNCHANGED <<calls, outcome, out>>
    /\ UNCHANGED <<args, notifyUserProc, conf, env, ctx, podResult>>

\* line 214: setupImage(notifyUserProc, ctx, args.rebuild, cacheDir)
SetupImage ==
    /\ pc = "setupImage"
    /\ \E res \in Outcomes :
          /\ Call("setupImage", res)
          /\ IF res = "ok"
             THEN /\ pc' = "setupPod"
                  /\ UNCHANGED <<outcome, out>>
             ELSE Abort(res, "setupImage")
    /\ UNCHANGED <<args, notifyUserProc, conf, env, ctx, podResult>>

\* line 216 with the error of setupPod passed over
SetupPodUnchecked ==
    /\ pc = "setupPod"
    /\ \E res \in Outcomes :
          /\ Call("setupPod", res)
          /\ IF res = "KeyboardInterrupt"
             THEN Propagate(res, "setupPod")
             ELSE /\ pc' = "hostPreTasks"
                  /\ UNCHANGED <<outcome, out>>
    /\ UNCHANGED <<args, notifyUserProc, conf, env, ctx, podResult>>

\* line 216: setupPod(notifyUserProc, ctx, args.rebuild)
SetupPod ==
    /\ pc = "setupPod"
    /\ \E res \in Outcomes :
          /\ Call("setupPod", res)
          /\ IF res = "ok"
             THEN /\ pc' = "hostPreTasks"
                  /\ UNCHANGED <<outcome, out>>
             ELSE Abort(res, "setupPod")
    /\ UNCHANGED <<args, notifyUserProc, conf, env, ctx, podResult>>

\* lines 222-233 with a RuntimeError that does not leave the try
AfterTryGoesOn(res, next) ==
    CASE res = "ok" -> next
      [] res = "KeyboardInterrupt" -> "killPod"
      [] res = "RuntimeError" -> next

\* lines 222-233: where the try around the pre-tasks and executePod goes
\* when the operation it called ends in res
AfterTry(res, next) ==
    CASE res = "ok" -> next
      [] res = "KeyboardInterrupt" -> "killPod"
      [] res = "RuntimeError" -> "hostPostTasks"

\* line 223: executeHostTasks(ctx.hostPreTasks)
HostPreTasks ==
    /\ pc = "hostPreTasks"
    /\ \E res \in Outcomes :
          /\ Call("hostPreTasks", res)
          /\ pc' = AfterTry(res, "executePod")
          /\ podResult' = IF res = "RuntimeError" THEN 1 ELSE podResult
    /\ UNCHANGED <<args, notifyUserProc, conf, env, ctx, outcome, out>>

\* lines 225 and 233 with the failure of the pod recorded as success
ExecutePodResultAlwaysZero(res, cur) ==
    CASE res = "ok" -> 0
      [] res = "RuntimeError" -> 0
      [] OTHER -> cur

\* lines 225 and 233: podResult after executePod; an interrupt leaves it
ExecutePodResult(res, cur) ==
    CASE res = "ok" -> 0
      [] res = "RuntimeError" -> 1
      [] OTHER -> cur

\* lines 224-225: executePod(...), podResult = 0 when it returns
ExecutePod ==
    /\ pc = "executePod"
    /\ \E res \in Outcomes :
          /\ Call("executePod", res)
          /\ pc' = AfterTry(res, "hostPostTasks")
          /\ podResult' = ExecutePodResult(res, podResult)
    /\ UNCHANGED <<args, notifyUserProc, conf, env, ctx, outcome, out>>

\* lines 226-231 with the RuntimeError of killPod handled as the others are
KillPodReportsError ==
    /\ pc = "killPod"
    /\ \E res \in Outcomes :
          /\ Call("killPod", res)
          /\ IF res = "ok"
             THEN /\ podResult' = 1
                  /\ pc' = "hostPostTasks"
                  /\ UNCHANGED <<outcome, out>>
             ELSE /\ Abort(res, "killPod")
                  /\ UNCHANGED podResult
    /\ UNCHANGED <<args, notifyUserProc, conf, env, ctx>>

\* lines 226-231 with the exit right after the kill
KillPodThenExit ==
    /\ pc = "killPod"
    /\ \E res \in Outcomes :
          /\ Call("killPod", res)
          /\ IF res = "KeyboardInterrupt"
             THEN /\ Propagate(res, "killPod")
                  /\ UNCHANGED podResult
             ELSE /\ podResult' = 1
                  /\ pc' = "exit"
                  /\ UNCHANGED <<outcome, out>>
    /\ UNCHANGED <<args, notifyUserProc, conf, env, ctx>>

\* lines 226-231: killPod(ctx.name), its RuntimeError passed over
KillPod ==
    /\ pc = "killPod"
    /\ \E res \in Outcomes :
          /\ Call("killPod", res)
          /\ IF res = "KeyboardInterrupt"
             THEN /\ Propagate(res, "killPod")
                  /\ UNCHANGED podResult
             ELSE /\ podResult' = 1
                  /\ pc' = "hostPostTasks"
                  /\ UNCHANGED <<outcome, out>>
    /\ UNCHANGED <<args, notifyUserProc, conf, env, ctx>>

\* lines 235-241 with the error of the post-tasks given to fail()
HostPostTasksFails ==
    /\ pc = "hostPostTasks"
    /\ \E res \in Outcomes :
          /\ Call("hostPostTasks", res)
          /\ IF res = "ok"
             THEN /\ pc' = "exit"
                  /\ UNCHANGED <<outcome, out>>
             ELSE Abort(res, "hostPostTasks")
    /\ UNCHANGED <<args, notifyUserProc, conf, env, ctx, podResult>>

\* lines 235-241: executeHostTasks(ctx.hostPostTasks), its error printed
HostPostTasks ==
    /\ pc = "hostPostTasks"
    /\ \E res \in Outcomes :
          /\ Call("hostPostTasks", res)
          /\ CASE res = "ok" ->
                    /\ pc' = "exit"
                    /\ UNCHANGED <<outcome, out>>
               [] res = "RuntimeError" ->
                    IF args.debug
                    THEN Propagate("RuntimeError", "hostPostTasks")
                    ELSE /\ out' = Append(out, [via |-> "print",
                                                what |-> "error",
                                                src |-> "hostPostTasks"])
                         /\ pc' = "exit"
                         /\ UNCHANGED outcome
               [] res = "KeyboardInterrupt" ->
                    Propagate(res, "hostPostTasks")
    /\ UNCHANGED <<args, notifyUserProc, conf, env, ctx, podResult>>

\* lines 243-250 without the exit(podResult): run() returns
ExitReturns ==
    /\ pc = "exit"
    /\ pc' = "done"
    /\ outcome' = Returned
    /\ UNCHANGED <<args, notifyUserProc, conf, env, ctx, calls, podResult, out>>

\* lines 243-250: the empty cleanup, then exit(podResult)
Exit ==
    /\ pc = "exit"
    /\ pc' = "done"
    /\ outcome' = Exited(podResult)
    /\ UNCHANGED <<args, notifyUserProc, conf, env, ctx, calls, podResult, out>>

(* -------------------------- specifications ----------------------------- *)
\* one invocation of run(), with at most MaxRunOverrides override flags
Init ==
    /\ pc = "start"
    /\ \E o \in {x \in RunOverrideArgs : OverrideCount(x) <= MaxRunOverrides},
          m \in ModeArgs : args = m @@ o
    /\ notifyUserProc = None
    /\ conf = <<>>
    /\ env = NoEnv
    /\ ctx = NoCtx
    /\ calls = <<>>
    /\ podResult = -1
    /\ outcome = Running
    /\ out = <<>>

Next ==
    \/ Start
    \/ LoadConfig
    \/ SelectEnv
    \/ GetEnv
    \/ Override
    \/ PrepareEnv
    \/ ShowEnv
    \/ UpdateImage
    \/ SetupImage
    \/ SetupPod
    \/ HostPreTasks
    \/ ExecutePod
    \/ KillPod
    \/ HostPostTasks
    \/ Exit

Spec == Init /\ [][Next]_vars

\* run() is one thread that goes on to its next statement, and every
\* operation it calls ends (it returns, raises or is interrupted)
FairSpec == Spec /\ WF_vars(Next)

\* applyCommandLineOverride alone: every combination of the override flags,
\* on every environment of the catalogue
InitOverride ==
    /\ pc = "applyCommandLineOverride"
    /\ \E o \in OverrideArgs : args = NoModeArgs @@ o
    /\ notifyUserProc = None
    /\ conf = EnvCatalogue
    /\ \E n \in EnvNames : env = EnvCatalogue[n]
    /\ ctx = NoCtx
    /\ calls = <<>>
    /\ podResult = -1
    /\ outcome = Running
    /\ out = <<>>

\* the call of the function: the env is mutated, and it returns or raises
CallOverride ==
    /\ pc = "applyCommandLineOverride"
    /\ LET r == ApplyCommandLineOverride(args, env)
       IN /\ env' = r.env
          /\ outcome' = IF r.exc = None THEN Returned
                        ELSE Raised(r.exc, "applyCommandLineOverride")
    /\ pc' = "done"
    /\ UNCHANGED <<args, notifyUserProc, conf, ctx, calls, podResult, out>>

NextOverride == CallOverride

SpecOverride == InitOverride /\ [][NextOverride]_vars

(* ------------------------------ properties ----------------------------- *)
\* the operations of the runtime adapter and of the host tasks
AdapterOps == {"updateImage", "setupImage", "setupPod", "executePod", "killPod"}

HostTaskOps == {"hostPreTasks", "hostPostTasks"}

NeverCalled(ops) == \A i \in 1..Len(calls) : calls[i].op \notin ops

CallCount(op) == Cardinality({i \in 1..Len(calls) : calls[i].op = op})

ExitedZero == outcome.kind = "exit" /\ outcome.code = 0

\* C1: when --update and --rebuild are both requested (without --list and
\* --show) no adapter operation and no host task is ever called, with or
\* without --debug, and the run ends by exit(1) or by the raised error, never
\* by exit code 0.
C1_UpdateRebuildFailsFirst ==
    (args.update /\ args.rebuild /\ ~args.list /\ ~args.show) =>
        /\ NeverCalled(AdapterOps \cup HostTaskOps)
        /\ ~ExitedZero
        /\ pc \notin {"setupImage", "setupPod", "hostPreTasks", "executePod",
                      "killPod", "hostPostTasks", "exit"}
        /\ pc = "done" => outcome.kind \in {"exit", "raised"}

C1_Witness ==
    /\ args.update /\ args.rebuild /\ ~args.list /\ ~args.show
    /\ pc = "done"
    /\ outcome = Raised("RuntimeError", "Invalid action --update --rebuild")

\* C2: when executePod is interrupted, killPod is called at most once in the
\* run, a RuntimeError of killPod is never the error the process ends with,
\* podResult is 1 after killPod returned or failed, and the process never
\* ends with exit code 0: when it exits, the code is 1.
C2_InterruptKillsOnce ==
    CalledWith("executePod", "KeyboardInterrupt") =>
        /\ CallCount("killPod") <= 1
        /\ ~(outcome.kind = "raised" /\ outcome.exc = "RuntimeError"
                                     /\ outcome.src = "killPod")
        /\ (CalledWith("killPod", "ok") \/ CalledWith("killPod", "RuntimeError"))
              => podResult = 1 /\ pc \in {"hostPostTasks", "exit", "done"}
        /\ outcome.kind = "exit" => outcome.code = 1
        /\ outcome.kind # "returned"

C2_Witness ==
    /\ CalledWith("executePod", "KeyboardInterrupt")
    /\ CalledWith("killPod", "RuntimeError")
    /\ outcome = Exited(1)

\* C3: without --list and --show the process exits with code 0 only if
\* executePod was called and returned, and no operation called before the
\* post-tasks (configuration, override, compile, image and pod setup,
\* pre-tasks, executePod) raised an error or was interrupted.
C3_ExitZeroOnlyAfterSuccess ==
    (~args.list /\ ~args.show /\ ExitedZero) =>
        /\ CalledWith("executePod", "ok")
        /\ \A i \in 1..Len(calls) :
              calls[i].op # "hostPostTasks" => calls[i].res = "ok"
        /\ ~Called("killPod")

C3_Witness ==
    /\ ~args.list /\ ~args.show /\ ExitedZero
    /\ CalledWith("executePod", "ok")

\* the lifecycle of C4
LifecycleOrder ==
    <<"updateImage", "setupImage", "setupPod", "hostPreTasks", "executePod",
      "hostPostTasks">>

LifecycleOps == {LifecycleOrder[k] : k \in 1..Len(LifecycleOrder)}

Position(op) == CHOOSE k \in 1..Len(LifecycleOrder) : LifecycleOrder[k] = op

\* updateImage belongs to the runs with --update only
Applies(op) == op # "updateImage" \/ args.update

Succeeded(op, i) ==
    \E j \in 1..(i - 1) : calls[j].op = op /\ calls[j].res = "ok"

CalledBefore(op, i) == \E j \in 1..(i - 1) : calls[j].op = op

LifecycleOnceInOrder ==
    \A i, j \in 1..Len(calls) :
        (i < j /\ calls[i].op \in LifecycleOps /\ calls[j].op \in LifecycleOps)
            => Position(calls[i].op) < Position(calls[j].op)

\* C4 as stated: the lifecycle operations are called at most once, in the
\* order of the lifecycle, and none (the post-tasks included) is called before
\* every earlier operation that applies to the run has returned without error.
C4_Original ==
    /\ LifecycleOnceInOrder
    /\ \A i \in 1..Len(calls) :
          calls[i].op \in LifecycleOps =>
              /\ Applies(calls[i].op)
              /\ \A k \in 1..(Position(calls[i].op) - 1) :
                    Applies(LifecycleOrder[k]) => Succeeded(LifecycleOrder[k], i)

\* C4 amended: the lifecycle operations are called at most once, in the order
\* of the lifecycle; every operation up to executePod is called only after
\* every earlier operation that applies has returned without error; the
\* post-tasks are called only after the image update (when requested), the
\* image setup and the pod setup returned without error and the pre-tasks
\* were called, whether the pre-tasks and executePod succeeded or not
\* (executePod is skipped only when the pre-tasks did not return).
C4_LifecycleOrder ==
    /\ LifecycleOnceInOrder
    /\ \A i \in 1..Len(calls) :
          calls[i].op \in LifecycleOps =>
              /\ Applies(calls[i].op)
              /\ \A k \in 1..(Position(calls[i].op) - 1) :
                    LET e == LifecycleOrder[k]
                    IN Applies(e) =>
                         IF calls[i].op # "hostPostTasks"
                            \/ e \notin {"hostPreTasks", "executePod"}
                         THEN Succeeded(e, i)
                         ELSE IF e = "hostPreTasks" THEN CalledBefore(e, i)
                         ELSE CalledBefore(e, i) \/ ~Succeeded("hostPreTasks", i)

C4_Witness ==
    /\ args.update
    /\ CalledWith("updateImage", "ok")
    /\ CalledWith("hostPreTasks", "RuntimeError")
    /\ Called("hostPostTasks")
    /\ pc = "done"

\* C5: when the pre-tasks fail with RuntimeError, executePod is never called
\* in the run, podResult is 1, and the process does not end with exit code 0:
\* when it exits, the code is 1.
C5_PreTaskFailureSkipsExecute ==
    CalledWith("hostPreTasks", "RuntimeError") =>
        /\ ~Called("executePod")
        /\ pc # "executePod"
        /\ podResult = 1
        /\ outcome.kind = "exit" => outcome.code = 1
        /\ outcome.kind # "returned"

C5_Witness ==
    /\ CalledWith("hostPreTasks", "RuntimeError")
    /\ outcome = Exited(1)

\* the pod result EXECUTE computed: 0 when executePod returned, 1 otherwise
ComputedPodResult == IF CalledWith("executePod", "ok") THEN 0 ELSE 1

PostTaskErrorPrinted ==
    \E i \in 1..Len(out) : out[i].what = "error"

\* C6 as stated: in every run whose post-tasks fail with RuntimeError, the
\* failure is reported and the process exits with the pod result of EXECUTE.
C6_Original ==
    CalledWith("hostPostTasks", "RuntimeError") =>
        /\ PostTaskErrorPrinted
        /\ pc = "done" => outcome = Exited(ComputedPodResult)

\* C6 amended: when --debug is not active, a RuntimeError of the post-tasks
\* is printed and the process exits with the pod result of EXECUTE (0 if
\* executePod returned, 1 if it failed, was interrupted or was not called);
\* with --debug the error is raised again and run() does not reach exit.
C6_PostTaskFailureKeepsResult ==
    CalledWith("hostPostTasks", "RuntimeError") =>
        IF args.debug
        THEN /\ outcome = Raised("RuntimeError", "hostPostTasks")
             /\ ~PostTaskErrorPrinted
        ELSE /\ PostTaskErrorPrinted
             /\ podResult = ComputedPodResult
             /\ pc \in {"exit", "done"}
             /\ pc = "done" => outcome = Exited(ComputedPodResult)

C6_Witness ==
    /\ ~args.debug
    /\ CalledWith("hostPostTasks", "RuntimeError")
    /\ CalledWith("executePod", "ok")
    /\ outcome = Exited(0)

\* C7: when --update was requested and updateImage fails with RuntimeError,
\* the run ends there, with and without --debug: setupImage, setupPod, the
\* host tasks, executePod and killPod are never called.
C7_UpdateFailureStops ==
    (args.update /\ CalledWith("updateImage", "RuntimeError")) =>
        /\ NeverCalled({"setupImage", "setupPod", "executePod", "killPod"}
                       \cup HostTaskOps)
        /\ pc = "done"
        /\ outcome = IF args.debug THEN Raised("RuntimeError", "updateImage")
                     ELSE Exited(1)

C7_Witness ==
    /\ args.update /\ ~args.debug
    /\ CalledWith("updateImage", "RuntimeError")
    /\ outcome = Exited(1)

\* the capabilities whose two flags are both given
BothFlags(name) ==
    ArgName(name) \in args.enable /\ ArgName(name) \in args.disable

OneFlag(name) ==
    (ArgName(name) \in args.enable) # (ArgName(name) \in args.disable)

\* C8: when the enable flag and the disable flag of a capability are both
\* set, applyCommandLineOverride fails with a configuration error (the
\* RuntimeError kind of the core) instead of choosing one of the two values.
C8_ConflictingFlagsFail ==
    (pc = "done" /\ \E name \in CapNames : BothFlags(name)) =>
        outcome.kind = "raised" /\ outcome.exc = "RuntimeError"

\* the function got as far as the --shell override (a malformed -e entry
\* raises before it)
ShellStepReached == pc = "done" /\ outcome.exc # "ValueError"

\* C9: on every environment and with every combination of the other override
\* flags (--terminal and --no-terminal included), applyCommandLineOverride
\* with --shell, once past the environ entries, leaves
\* env.capabilities["terminal"] true and env.command equal to ["/bin/bash"].
C9_ShellForcesTerminal ==
    (args.shell /\ ShellStepReached) =>
        /\ "terminal" \in DOMAIN env.capabilities
        /\ env.capabilities["terminal"] = TRUE
        /\ env.command = <<"/bin/bash">>

C9_Witness ==
    /\ args.shell /\ "terminal" \in args.disable
    /\ pc = "done" /\ outcome = Returned
    /\ env.envName = "web"
    /\ env.command = <<"/bin/bash">>
    /\ env.capabilities["terminal"] = TRUE

\* C10 as stated: for every capability given one explicit flag, the value of
\* env.capabilities[name] after applyCommandLineOverride is the one the flag
\* dictates, whatever the other overrides are.
C10_Original ==
    pc = "done" =>
        \A name \in CapNames :
            OneFlag(name) =>
                /\ name \in DOMAIN env.capabilities
                /\ env.capabilities[name] = (ArgName(name) \in args.enable)

\* C10 amended: for every capability given exactly one explicit flag, the
\* value of env.capabilities[name] after applyCommandLineOverride is the one
\* the flag dictates, except that --shell, when it is applied, sets terminal
\* to true even against --no-terminal.
C10_ExplicitFlagsKeptButShell ==
    pc = "done" =>
        \A name \in CapNames :
            OneFlag(name) =>
                /\ name \in DOMAIN env.capabilities
                /\ env.capabilities[name] =
                      IF name = "terminal" /\ args.shell /\ ShellStepReached
                      THEN TRUE
                      ELSE ArgName(name) \in args.enable

C10_Witness ==
    /\ pc = "done" /\ outcome = Returned
    /\ args.shell /\ args.image # None /\ args.net # None /\ args.home # None
    /\ args.environ # <<>>
    /\ "terminal" \in args.disable /\ "terminal" \notin args.enable
    /\ "mount_cwd" \in args.disable /\ "mount_cwd" \notin args.enable
    /\ env.capabilities["mount-cwd"] = FALSE
    /\ env.capabilities["terminal"] = TRUE

\* the operations whose RuntimeError is handled by "if args.debug: raise; fail"
FailingOps ==
    {"loadConfig", "getEnv", "prepareEnv", "updateImage", "setupImage",
     "setupPod"}

\* the error of op went through fail() or the print of line 241
Reported(op) ==
    \E i \in 1..Len(out) :
        out[i].what \in {"failure", "error"} /\ out[i].src = op

FailureReported ==
    \E i \in 1..Len(out) : out[i].what = "failure"

C12_KillOnlyDuringExecute ==
    /\ Called("killPod") => CalledWith("executePod", "KeyboardInterrupt")
    /\ CalledWith("hostPreTasks", "KeyboardInterrupt") =>
           podResult = -1 /\ pc \notin {"hostPostTasks", "exit"}

\* the run went on after the try of lines 222-233 was left by an interrupt
\* that killPod survived, or by a RuntimeError
TryLeftEarly ==
    \/ /\ CalledWith("executePod", "KeyboardInterrupt")
       /\ CalledWith("killPod", "ok") \/ CalledWith("killPod", "RuntimeError")
    \/ CalledWith("executePod", "RuntimeError")
    \/ CalledWith("hostPreTasks", "RuntimeError")

\* C13: when executePod is interrupted and killPod returns or fails with
\* RuntimeError, and when executePod or a pre-task fails with RuntimeError,
\* the post-tasks are the next operation called and they are called exactly
\* once before the process ends.
C13_PostTasksNotBypassed ==
    TryLeftEarly =>
        \/ pc = "hostPostTasks" /\ CallCount("hostPostTasks") = 0
        \/ /\ pc \in {"exit", "done"}
           /\ CallCount("hostPostTasks") = 1
           /\ calls[Len(calls)].op = "hostPostTasks"

C13_Witness ==
    /\ CalledWith("executePod", "KeyboardInterrupt")
    /\ CalledWith("killPod", "RuntimeError")
    /\ CalledWith("hostPostTasks", "ok")
    /\ pc = "done"

\* C14: with --show, once the configuration, the override and the compile
\* succeeded, run() prints as its last line "podman run" followed by the
\* runtime arguments, the image name and the command arguments of the
\* context, in that order, and returns, without calling any adapter
\* operation or host task, whatever --update and --rebuild are.
C14_ShowPrintsAndReturns ==
    (args.show /\ CalledWith("prepareEnv", "ok")) =>
        /\ NeverCalled(AdapterOps \cup HostTaskOps)
        /\ pc \in {"showEnv", "done"}
        /\ pc = "done" =>
              /\ outcome = Returned
              /\ out[Len(out)].what = "command line"
              /\ out[Len(out)].src =
                    <<"podman", "run">> \o ctx.runtimeArgs
                    \o <<ctx.imageName>> \o ctx.commandArgs

C14_Witness ==
    /\ args.show /\ args.update /\ args.rebuild
    /\ pc = "done" /\ outcome = Returned
    /\ out[Len(out)].what = "command line"
    /\ out[Len(out)].src = <<"podman", "run", "--rm", "localhost/dev", "/bin/sh">>

\* C15: a --home path that does not exist makes the override fail with an
\* error of the RuntimeError kind: without --debug it is reported through
\* fail() and the process exits with code 1; no adapter operation is called.
C15_HomeErrorReported ==
    CalledWith("applyCommandLineOverride", "FileNotFoundError") =>
        /\ NeverCalled(AdapterOps)
        /\ ~args.debug =>
              Reported("applyCommandLineOverride") /\ outcome = Exited(1)

\* C16: an -e/--environ entry without "=" makes the override fail with an
\* error of the RuntimeError kind, which run() catches: without --debug it is
\* reported and the process exits with code 1, with --debug it is raised
\* again as a RuntimeError; no adapter operation is called.
C16_MalformedEnvironReported ==
    CalledWith("applyCommandLineOverride", "ValueError") =>
        /\ NeverCalled(AdapterOps)
        /\ IF args.debug
           THEN outcome = Raised("RuntimeError", "applyCommandLineOverride")
           ELSE Reported("applyCommandLineOverride") /\ outcome = Exited(1)

\* C17: once prepareEnv has produced the execution context, no step of run()
\* changes a field of env.
C17_EnvFrozenAfterCompile ==
    [][CalledWith("prepareEnv", "ok") => env' = env]_vars

\* the rows listEnv printed after the header
ListedRows == 2..Len(out)

\* C18: with --list and without --show, on a configuration that is not
\* empty, run() prints the NAME/DESCRIPTION header and then exactly one row
\* per environment, the rows in ascending order of the environment name and
\* each with the description of its environment, and returns; it calls
\* nothing but the configuration load, and neither env nor ctx is set.
C18_ListSortedByName ==
    (args.list /\ ~args.show /\ CalledWith("loadConfig", "ok")
     /\ DOMAIN conf # {}) =>
        /\ Len(calls) = 1
        /\ env = NoEnv /\ ctx = NoCtx
        /\ pc \in {"selectEnv", "done"}
        /\ pc = "done" =>
              /\ outcome = Returned
              /\ Len(out) = 1 + Cardinality(DOMAIN conf)
              /\ out[1].src = <<"NAME", "DESCRIPTION">>
              /\ \A i \in ListedRows :
                    /\ out[i].src[1] \in DOMAIN conf
                    /\ out[i].src[2] = conf[out[i].src[1]].description
              /\ \A i, j \in ListedRows :
                    i < j => NameLess(out[i].src[1], out[j].src[1])

C18_Witness ==
    /\ args.list /\ ~args.show
    /\ Cardinality(DOMAIN conf) = 2
    /\ pc = "done" /\ outcome = Returned
    /\ Len(out) = 3

\* C19: every run() ends, in exactly one outcome: a return (of --list or
\* --show only), exit(0), exit(1) or a raised exception; the outcome is set
\* when run() ends and at no other time, and once it is set it does not
\* change and no operation is called any more.
C19_RunTerminatesOnce ==
    /\ <>(pc = "done")
    /\ [](pc = "done" <=> outcome.kind # "running")
    /\ [](outcome.kind \in {"running", "returned", "exit", "raised"})
    /\ [](outcome.kind = "exit" => outcome.code \in {0, 1})
    /\ [](outcome.kind = "returned" => args.list \/ args.show)
    /\ [][outcome.kind # "running" => outcome' = outcome /\ calls' = calls]_vars

C19_Witness ==
    /\ pc = "done"
    /\ outcome = Exited(0)
    /\ Len(calls) = 9
    /\ calls[Len(calls)].op = "hostPostTasks"

UsagePrinted == \E i \in 1..Len(out) : out[i].what = "usage"

\* C20: when no environment is named and --list does not take over, run()
\* takes the only environment of a configuration that holds exactly one and
\* goes on to getEnv; with none or several it prints the usage and exits
\* with code 1, and getEnv, the override, the compile, the adapter
\* operations and the host tasks are never called.
C20_SelectsOnlyEnv ==
    /\ [][(pc = "selectEnv" /\ args.env = None /\ ~(args.list /\ ~args.show)) =>
            IF Cardinality(DOMAIN conf) = 1
            THEN /\ args'.env \in DOMAIN conf
                 /\ pc' = "getEnv"
                 /\ out' = out
            ELSE /\ UsagePrinted'
                 /\ pc' = "done"
                 /\ outcome' = Exited(1)]_vars
    /\ [](UsagePrinted =>
            /\ Cardinality(DOMAIN conf) # 1
            /\ pc = "done" /\ outcome = Exited(1)
            /\ Len(calls) = 1 /\ calls[1].op = "loadConfig"
            /\ env = NoEnv /\ ctx = NoCtx)

C20_Witness ==
    /\ UsagePrinted
    /\ Cardinality(DOMAIN conf) = 2
    /\ outcome = Exited(1)

====
